---- MODULE Spec2Model ----
(***************************************************************************)
(* Model of src/src/main.js: the water scene's host driver (the parameter  *)
(* object bound to the GUI, the uniforms, the clock, the animate() frame   *)
(* loop and the resize listener) and the two shader stages of              *)
(* waterMaterial (the vertex stage's elevation and the fragment stage's    *)
(* color).                                                                 *)
(*                                                                         *)
(* Numbers are fixed point.  Parameters and uniforms are counted in        *)
(* thousandths (the sliders' step 0.001), time in whole clock units, an    *)
(* elevation in units of 1/ElevDen, a color channel in units of 1/255.     *)
(***************************************************************************)
EXTENDS Integers, Sequences, FiniteSets

VARIABLES
  pc,           \* position of the top-level script: "script" until line 137 ran
  now,          \* the host's monotonic time (performance.now)
  clock,        \* the THREE.Clock of line 117
  debugObject,  \* the GUI-bound parameter object, lines 96-105
  uniforms,     \* waterMaterial.uniforms, lines 62-73
  rendered,     \* the uniform values renderer.render used last (<<>> before a frame)
  frameNo,      \* frames rendered so far, counted modulo FrameMod
  pending,      \* animate callbacks waiting in requestAnimationFrame's queue
  window,       \* window.innerWidth and window.innerHeight
  camera,       \* camera.aspect
  rendererSize, \* the size given to renderer.setSize
  lastWrite,    \* per field, the value the most recent GUI change event wrote
  guiEvents,    \* GUI change events delivered so far
  stage,        \* position in the shader program of one vertex and its pixel
  position,     \* the vertex attribute position
  su,           \* the uniforms of the draw call the shader runs in
  sinX,         \* the value sin() returned for the x phase, over SinScale
  sinZ,         \* the value sin() returned for the z phase, over SinScale
  elevation,    \* the vertex shader's local elevation, over ElevDen
  loopI,        \* the loop variable i of line 42
  octaves,      \* the values of i the loop body ran with, in order
  vElevation,   \* the varying vElevation
  mvInput,      \* the position multiplied by modelViewMatrix, line 48
  color         \* the fragment shader's color, channels over 255 * ElevDen

hostVars == <<pc, now, clock, debugObject, uniforms, rendered, frameNo, pending,
              window, camera, rendererSize, lastWrite, guiEvents>>
shaderVars == <<stage, position, su, sinX, sinZ, elevation, loopI, octaves,
                vElevation, mvInput, color>>
vars == <<hostVars, shaderVars>>

----------------------------------------------------------------------------
(* Bounds of the model *)

MaxTime == 2
MaxGuiEvents == 2
FrameMod == 2
SinScale == 1
NoiseScale == 2

(* One thousandth is the unit of a parameter: the step 0.001 of line 107. *)
Milli == 1000

----------------------------------------------------------------------------
(* The parameter object and its controllers, lines 96-114 *)

Fields == {"uBigWavesElevation", "uBigWavesFrequencyX", "uBigWavesFrequencyY",
           "uBigWavesSpeed", "uSmallWavesElevation", "uSmallWavesFrequency",
           "uSmallWavesSpeed", "uSmallIterations"}

debugObjectDefaults ==
  [uBigWavesElevation   |-> 150,
   uBigWavesFrequencyX  |-> 1 * Milli,
   uBigWavesFrequencyY  |-> 1 * Milli,
   uBigWavesSpeed       |-> 750,
   uSmallWavesElevation |-> 150,
   uSmallWavesFrequency |-> 3 * Milli,
   uSmallWavesSpeed     |-> 200,
   uSmallIterations     |-> 4 * Milli]

(* gui.add(object, property, min, max, step): the controller's range and step *)
ControllerMin == [f \in Fields |-> 0]

ControllerMax ==
  [uBigWavesElevation   |-> 1 * Milli,
   uBigWavesFrequencyX  |-> 10 * Milli,
   uBigWavesFrequencyY  |-> 10 * Milli,
   uBigWavesSpeed       |-> 4 * Milli,
   uSmallWavesElevation |-> 1 * Milli,
   uSmallWavesFrequency |-> 30 * Milli,
   uSmallWavesSpeed     |-> 4 * Milli,
   uSmallIterations     |-> 5 * Milli]

ControllerStep ==
  [f \in Fields |-> IF f = "uSmallIterations" THEN 1 * Milli ELSE 1]

(* The values a user's input may ask a controller for, before the controller
   snaps and clamps them. *)
RawValues == {-400, 2600}

(* Math.round(v / step) * step *)
snap(f, v) ==
  ((2 * v + ControllerStep[f]) \div (2 * ControllerStep[f])) * ControllerStep[f]

clampNoMax(f, v) ==
  IF v < ControllerMin[f] THEN ControllerMin[f] ELSE v

clamp(f, v) ==
  IF v < ControllerMin[f] THEN ControllerMin[f]
  ELSE IF v > ControllerMax[f] THEN ControllerMax[f]
  ELSE v

setValueBothAxes(obj, f, v) ==
  IF f \in {"uBigWavesFrequencyX", "uBigWavesFrequencyY"}
  THEN [obj EXCEPT !["uBigWavesFrequencyX"] = v, !["uBigWavesFrequencyY"] = v]
  ELSE [obj EXCEPT ![f] = v]

(* The controller's write: object[property] = value *)
setValue(obj, f, v) == [obj EXCEPT ![f] = v]

----------------------------------------------------------------------------
(* The uniforms, lines 62-73 *)

uDepthColorDefault == <<24, 102, 145>>      \* '#186691'
uSurfaceColorDefault == <<155, 216, 255>>   \* '#9bd8ff'

uniformsDefaults ==
  [uTime                |-> 0,
   uBigWavesElevation   |-> 150,
   uBigWavesFrequency   |-> [x |-> 1 * Milli, y |-> 1 * Milli],
   uBigWavesSpeed       |-> 750,
   uSmallWavesElevation |-> 150,
   uSmallWavesFrequency |-> 3 * Milli,
   uSmallWavesSpeed     |-> 200,
   uSmallIterations     |-> 4 * Milli,
   uDepthColor          |-> uDepthColorDefault,
   uSurfaceColor        |-> uSurfaceColorDefault]

(* The uniform value that parameter field f is copied to *)
UniformOf(u, f) ==
  IF f = "uBigWavesFrequencyX" THEN u.uBigWavesFrequency.x
  ELSE IF f = "uBigWavesFrequencyY" THEN u.uBigWavesFrequency.y
  ELSE u[f]

----------------------------------------------------------------------------
(* The clock, lines 117 and 120 *)

clockInit == [running |-> FALSE, oldTime |-> 0, elapsedTime |-> 0]

getElapsedTimeAsDelta(c, t) ==
  IF ~c.running
  THEN [running |-> TRUE, oldTime |-> t, elapsedTime |-> 0]
  ELSE [c EXCEPT !.oldTime = t, !.elapsedTime = t - c.oldTime]

(* clock.getElapsedTime(): the first call starts the clock and yields 0, a
   later call adds the time since the previous call.  The result is the
   clock after the call; the value returned is its elapsedTime. *)
getElapsedTime(c, t) ==
  IF ~c.running
  THEN [running |-> TRUE, oldTime |-> t, elapsedTime |-> 0]
  ELSE [c EXCEPT !.oldTime = t, !.elapsedTime = c.elapsedTime + (t - c.oldTime)]

----------------------------------------------------------------------------
(* animate(), lines 119-135 *)

copyParamsTorn(u, d) ==
  [u EXCEPT !.uBigWavesFrequency   = [x |-> d.uBigWavesFrequencyX,
                                      y |-> u.uBigWavesFrequency.y],
            !.uBigWavesElevation   = d.uBigWavesElevation,
            !.uBigWavesSpeed       = d.uBigWavesSpeed,
            !.uSmallWavesElevation = d.uSmallWavesElevation,
            !.uSmallWavesFrequency = d.uSmallWavesFrequency,
            !.uSmallWavesSpeed     = d.uSmallWavesSpeed,
            !.uSmallIterations     = d.uSmallIterations]

(* lines 124-130: the wave uniforms are set from the parameter object *)
copyParams(u, d) ==
  [u EXCEPT !.uBigWavesFrequency   = [x |-> d.uBigWavesFrequencyX,
                                      y |-> d.uBigWavesFrequencyY],
            !.uBigWavesElevation   = d.uBigWavesElevation,
            !.uBigWavesSpeed       = d.uBigWavesSpeed,
            !.uSmallWavesElevation = d.uSmallWavesElevation,
            !.uSmallWavesFrequency = d.uSmallWavesFrequency,
            !.uSmallWavesSpeed     = d.uSmallWavesSpeed,
            !.uSmallIterations     = d.uSmallIterations]

renderBeforeUpdate(before, after) == before

(* line 132: renderer.render runs after the uniforms were updated, so the
   frame is drawn with the updated values *)
render(before, after) == after

noRequest(q) == q

(* line 134: requestAnimationFrame(animate) queues one callback *)
requestAnimationFrame(q) == q + 1

(* The body of animate(), with q the callbacks left in the queue *)
animate(q) ==
  /\ clock' = getElapsedTime(clock, now)
  /\ uniforms' = copyParams([uniforms EXCEPT !.uTime = clock'.elapsedTime],
                            debugObject)
  /\ rendered' = <<render(uniforms, uniforms')>>
  /\ frameNo' = (frameNo + 1) % FrameMod
  /\ pending' = requestAnimationFrame(q)
  /\ UNCHANGED <<now, debugObject, window, camera, rendererSize,
                 lastWrite, guiEvents>>

----------------------------------------------------------------------------
(* The window, lines 6, 8 and 140-144 *)

Sizes == {[innerWidth |-> 800, innerHeight |-> 600],
          [innerWidth |-> 600, innerHeight |-> 800]}

windowInit == [innerWidth |-> 800, innerHeight |-> 600]

(* window.innerWidth / window.innerHeight, kept as a fraction *)
aspect(w) == [num |-> w.innerWidth, den |-> w.innerHeight]

----------------------------------------------------------------------------
(* The shaders of waterMaterial, lines 17-61 *)

(* The iteration slider's maximum, line 114: the most octaves a frame runs *)
MaxOctaves == 5

(* The least common multiple of 1..MaxOctaves: it makes x / i exact *)
OctaveLcm ==
  CHOOSE n \in 1..120 :
    /\ \A k \in 1..MaxOctaves : n % k = 0
    /\ \A m \in 1..(n - 1) : \E k \in 1..MaxOctaves : m % k # 0

(* The denominator of an elevation *)
ElevDen == Milli * SinScale * SinScale * NoiseScale * OctaveLcm

abs(x) == IF x < 0 THEN -x ELSE x

(* sin(phase), over SinScale: 0 at phase 0 and otherwise some value of
   [-1, 1]; which one is left open *)
sin(phase) == IF phase = 0 THEN {0} ELSE (-SinScale)..SinScale

(* cnoise(P), lines 30-34, over NoiseScale: fract() of a hash of P, some
   value of [0, 1); which one is left open *)
cnoise(P) == 0..(NoiseScale - 1)

(* lines 38-40: sin(x * fx + t * s) * sin(z * fy + t * s) * elevation *)
phaseX(pos, u) == pos.x * u.uBigWavesFrequency.x + u.uTime * u.uBigWavesSpeed
phaseZ(pos, u) == pos.z * u.uBigWavesFrequency.y + u.uTime * u.uBigWavesSpeed
bigWaves(sx, sz, u) == sx * sz * u.uBigWavesElevation * NoiseScale * OctaveLcm

(* line 43: the argument of cnoise *)
noiseArg(pos, u, k) ==
  [x |-> pos.x * u.uSmallWavesFrequency * k,
   y |-> pos.z * u.uSmallWavesFrequency * k,
   z |-> u.uTime * u.uSmallWavesSpeed]

octaveNoFalloff(n, u, k) ==
  abs(n * u.uSmallWavesElevation) * SinScale * SinScale * OctaveLcm

(* line 43: abs(cnoise(...) * uSmallWavesElevation / i), n the noise value *)
octave(n, u, k) ==
  abs(n * u.uSmallWavesElevation) * SinScale * SinScale * (OctaveLcm \div k)

loopConditionStrict(k, u) == k * Milli < u.uSmallIterations

(* line 42: i <= uSmallIterations *)
loopCondition(k, u) == k * Milli <= u.uSmallIterations

mixClamped(x, y, a) ==
  LET t == IF a < 0 THEN 0 ELSE IF a > ElevDen THEN ElevDen ELSE a
  IN  x * (ElevDen - t) + y * t

(* line 58: mix(x, y, a) = x * (1 - a) + y * a, a over ElevDen *)
mix(x, y, a) == x * (ElevDen - a) + y * a

----------------------------------------------------------------------------
(* Initial states *)

(* The state after lines 1-117: every object built, no frame drawn yet; the
   shader is not run *)
Init ==
  /\ pc = "script"
  /\ now = 0
  /\ clock = clockInit
  /\ debugObject = debugObjectDefaults
  /\ uniforms = uniformsDefaults
  /\ rendered = <<>>
  /\ frameNo = 0
  /\ pending = 0
  /\ window = windowInit
  /\ camera = [aspect |-> aspect(windowInit)]
  /\ rendererSize = windowInit
  /\ lastWrite = debugObjectDefaults
  /\ guiEvents = 0
  /\ stage = "idle"
  /\ position = [x |-> 0, y |-> 0, z |-> 0]
  /\ su = uniformsDefaults
  /\ sinX = 0
  /\ sinZ = 0
  /\ elevation = 0
  /\ loopI = 0
  /\ octaves = <<>>
  /\ vElevation = 0
  /\ mvInput = [x |-> 0, y |-> 0, z |-> 0]
  /\ color = <<0, 0, 0>>

(* The vertices and uniform values the shader is run on *)
Positions == {[x |-> 0, y |-> 0, z |-> 0], [x |-> 1, y |-> 1, z |-> 1],
              [x |-> -1, y |-> 1, z |-> 0]}
Times == {0, 1}
BigElevations == {-150, 150, 1 * Milli}
SmallElevations == {150, 1 * Milli}
Iterations == {-1 * Milli, 0, 2 * Milli, 2500, 5 * Milli}

(* The host as built, and the shader about to run on one vertex *)
ShaderInit ==
  /\ pc = "script"
  /\ now = 0
  /\ clock = clockInit
  /\ debugObject = debugObjectDefaults
  /\ uniforms = uniformsDefaults
  /\ rendered = <<>>
  /\ frameNo = 0
  /\ pending = 0
  /\ window = windowInit
  /\ camera = [aspect |-> aspect(windowInit)]
  /\ rendererSize = windowInit
  /\ lastWrite = debugObjectDefaults
  /\ guiEvents = 0
  /\ stage = "main"
  /\ position \in Positions
  /\ \E t \in Times, be \in BigElevations, se \in SmallElevations,
        it \in Iterations :
       su = [uniformsDefaults EXCEPT !.uTime = t,
                                     !.uBigWavesElevation = be,
                                     !.uSmallWavesElevation = se,
                                     !.uSmallIterations = it]
  /\ sinX = 0
  /\ sinZ = 0
  /\ elevation = 0
  /\ loopI = 0
  /\ octaves = <<>>
  /\ vElevation = 0
  /\ mvInput = [x |-> 0, y |-> 0, z |-> 0]
  /\ color = <<0, 0, 0>>

----------------------------------------------------------------------------
(* The host's steps *)

(* Host time passes *)
Tick ==
  /\ now < MaxTime
  /\ now' = now + 1
  /\ UNCHANGED <<pc, clock, debugObject, uniforms, rendered, frameNo, pending,
                 window, camera, rendererSize, lastWrite, guiEvents>>
  /\ UNCHANGED shaderVars

(* line 137: the script calls animate() itself; lines 140-144 then register
   the resize listener *)
Start ==
  /\ pc = "script"
  /\ pc' = "running"
  /\ animate(pending)
  /\ UNCHANGED shaderVars

(* A display refresh runs the queued animate callback *)
AnimateFrame ==
  /\ pc = "running"
  /\ pending > 0
  /\ animate(pending - 1)
  /\ UNCHANGED pc
  /\ UNCHANGED shaderVars

(* A GUI change event on the controller of field f *)
GuiChange ==
  /\ pc = "running"
  /\ guiEvents < MaxGuiEvents
  /\ \E f \in Fields, raw \in RawValues :
       LET v == clamp(f, snap(f, raw)) IN
       /\ debugObject' = setValue(debugObject, f, v)
       /\ lastWrite' = [lastWrite EXCEPT ![f] = v]
  /\ guiEvents' = guiEvents + 1
  /\ UNCHANGED <<pc, now, clock, uniforms, rendered, frameNo, pending,
                 window, camera, rendererSize>>
  /\ UNCHANGED shaderVars

(* lines 140-144: the window is resized and the listener runs *)
Resize ==
  /\ pc = "running"
  /\ \E s \in Sizes :
       /\ window' = s
       /\ camera' = [camera EXCEPT !.aspect = aspect(s)]
       /\ rendererSize' = s
  /\ UNCHANGED <<pc, now, clock, debugObject, uniforms, rendered, frameNo,
                 pending, lastWrite, guiEvents>>
  /\ UNCHANGED shaderVars

----------------------------------------------------------------------------
(* The shader's steps, for one vertex and the pixel at it *)

(* lines 37-40 *)
VertexBigWaves ==
  /\ stage = "main"
  /\ \E sx \in sin(phaseX(position, su)), sz \in sin(phaseZ(position, su)) :
       /\ sinX' = sx
       /\ sinZ' = sz
       /\ elevation' = bigWaves(sx, sz, su)
  /\ mvInput' = position
  /\ loopI' = 1
  /\ stage' = "loop"
  /\ UNCHANGED <<position, su, octaves, vElevation, color>>
  /\ UNCHANGED hostVars

(* lines 42-44: one run of the loop body *)
VertexOctave ==
  /\ stage = "loop"
  /\ loopCondition(loopI, su)
  /\ \E n \in cnoise(noiseArg(position, su, loopI)) :
       elevation' = elevation - octave(n, su, loopI)
  /\ octaves' = Append(octaves, loopI)
  /\ loopI' = loopI + 1
  /\ UNCHANGED <<stage, position, su, sinX, sinZ, vElevation, mvInput, color>>
  /\ UNCHANGED hostVars

(* lines 46-49: the loop is left, vElevation and gl_Position are written;
   modelPosition is still the attribute position *)
VertexFinish ==
  /\ stage = "loop"
  /\ ~loopCondition(loopI, su)
  /\ vElevation' = elevation
  /\ stage' = "fragment"
  /\ UNCHANGED <<position, su, sinX, sinZ, elevation, loopI, octaves, mvInput,
                 color>>
  /\ UNCHANGED hostVars

(* lines 57-60 *)
Fragment ==
  /\ stage = "fragment"
  /\ color' = [c \in 1..3 |-> mix(su.uDepthColor[c], su.uSurfaceColor[c],
                                  vElevation)]
  /\ stage' = "done"
  /\ UNCHANGED <<position, su, sinX, sinZ, elevation, loopI, octaves,
                 vElevation, mvInput>>
  /\ UNCHANGED hostVars

----------------------------------------------------------------------------
(* Specifications *)

HostNext == Tick \/ Start \/ AnimateFrame \/ GuiChange \/ Resize

ShaderNext == VertexBigWaves \/ VertexOctave \/ VertexFinish \/ Fragment

(* The host driver *)
Spec == Init /\ [][HostNext]_vars

(* The host driver with the script running on and display refresh signals
   delivered fairly *)
LiveSpec == Spec /\ WF_vars(Start) /\ WF_vars(AnimateFrame)

(* The shader stages, run on inputs drawn from bounded sets *)
ShaderSpec == ShaderInit /\ [][ShaderNext]_vars

----------------------------------------------------------------------------
(* Properties of the host driver *)

FrameRendered == frameNo' # frameNo

ChangedFields == {f \in Fields : debugObject[f] # debugObjectDefaults[f]}

InRange(f, v) == ControllerMin[f] <= v /\ v <= ControllerMax[f]

(* C1: no torn reads.  Before the first frame the wave uniforms equal the
   parameter defaults, and every frame is rendered with all 8 wave uniform
   values equal to the fields the parameter object holds at the one instant
   of that animate() call: no frame mixes fields from before and after a GUI
   write. *)
C1_NoTornReads ==
  /\ [](pc = "script" =>
          \A f \in Fields : UniformOf(uniforms, f) = debugObject[f])
  /\ [][FrameRendered =>
          /\ debugObject' = debugObject
          /\ \A f \in Fields : UniformOf(rendered'[1], f) = debugObject[f]]_vars

(* C1's case: two GUI writes to different fields, then a frame drawn with
   both of them *)
C1_Witness ==
  /\ rendered # <<>>
  /\ Cardinality(ChangedFields) = 2
  /\ \A f \in Fields : UniformOf(rendered[1], f) = debugObject[f]

(* C2: last write wins.  Every frame is rendered with, for each field, the
   value of the most recent GUI write to that field (the default when none
   happened): a frame never uses a value older than the latest write. *)
C2_LastWriteWins ==
  [][FrameRendered =>
       \A f \in Fields : UniformOf(rendered'[1], f) = lastWrite[f]]_vars

(* C2's case: one field written twice, then a frame drawn with the value
   written last *)
C2_Witness ==
  /\ rendered # <<>>
  /\ guiEvents = 2
  /\ Cardinality(ChangedFields) = 1
  /\ \A f \in Fields : UniformOf(rendered[1], f) = lastWrite[f]
  /\ rendered[1].uTime > 0

(* C7: uTime starts at 0 and never decreases; only a step that renders a
   frame changes it, so no GUI change event and no resize resets it; the
   uTime of a frame is never below that of the frame before it. *)
C7_TimeMonotonic ==
  /\ [](pc = "script" => uniforms.uTime = 0)
  /\ [][/\ uniforms'.uTime >= uniforms.uTime
        /\ (uniforms'.uTime # uniforms.uTime => FrameRendered)
        /\ (rendered # <<>> => rendered'[1].uTime >= rendered[1].uTime)]_vars

(* C7's case: a frame with a later time, after a GUI write and a resize *)
C7_Witness ==
  /\ rendered # <<>>
  /\ rendered[1].uTime >= 2
  /\ guiEvents > 0
  /\ window # windowInit

(* C8: a step changes at most one field of the parameter object, and only a
   GUI change event changes any; a frame and a resize leave the object as it
   is; the two color uniforms never change. *)
C8_FrameEffects ==
  [][/\ Cardinality({f \in Fields : debugObject'[f] # debugObject[f]}) <= 1
     /\ (debugObject' # debugObject => guiEvents' = guiEvents + 1)
     /\ (FrameRendered => debugObject' = debugObject)
     /\ (window' # window => debugObject' = debugObject)
     /\ uniforms'.uDepthColor = uniforms.uDepthColor
     /\ uniforms'.uSurfaceColor = uniforms.uSurfaceColor]_vars

(* C8's case: two GUI writes, a frame and a resize have happened *)
C8_Witness ==
  /\ Cardinality(ChangedFields) = 2
  /\ "uBigWavesFrequencyX" \in ChangedFields
  /\ "uBigWavesFrequencyY" \notin ChangedFields
  /\ rendered # <<>>
  /\ rendered[1].uBigWavesFrequency.x = debugObject.uBigWavesFrequencyX
  /\ window # windowInit
  /\ uniforms.uDepthColor = uDepthColorDefault

(* C9: every parameter stays inside its slider's range, the iteration count
   a whole number, and so does every uniform value a frame is rendered
   with. *)
C9_RangeInvariant ==
  /\ \A f \in Fields : InRange(f, debugObject[f])
  /\ debugObject.uSmallIterations % Milli = 0
  /\ rendered # <<>> =>
       /\ \A f \in Fields : InRange(f, UniformOf(rendered[1], f))
       /\ rendered[1].uSmallIterations % Milli = 0

(* C9's case: a frame drawn after an input above a slider's maximum was
   clamped and a fractional iteration count was snapped *)
C9_Witness ==
  /\ rendered # <<>>
  /\ rendered[1].uSmallIterations = 3 * Milli
  /\ rendered[1].uBigWavesElevation = ControllerMax["uBigWavesElevation"]

(* C10: once the script has called animate(), exactly one animate callback
   is pending at every moment; a step that renders a frame renders one; no
   GUI change event and no resize changes the queue; and with display
   refreshes delivered fairly, frames are rendered forever. *)
C10_FrameLoop ==
  /\ [](pc = "running" => pending = 1)
  /\ [][/\ (guiEvents' # guiEvents \/ window' # window) => pending' = pending
        /\ FrameRendered => frameNo' = (frameNo + 1) % FrameMod]_vars
  /\ []<><<FrameRendered>>_vars

(* C10's case: the loop is running after GUI events and a resize *)
C10_Witness ==
  /\ pc = "running"
  /\ pending = 1
  /\ guiEvents = MaxGuiEvents
  /\ window # windowInit
  /\ rendered # <<>>
  /\ rendered[1].uTime >= 2

----------------------------------------------------------------------------
(* Properties of the shader stages *)

LoopLeft == stage \in {"fragment", "done"}

(* The uniforms are values the sliders can produce *)
InGuiRange(u) == \A f \in Fields : InRange(f, UniformOf(u, f))

(* A draw the program can make: slider values, a whole iteration count and
   a vertex of the plane of line 15, which lies in z = 0 *)
ProgramDraw ==
  /\ InGuiRange(su)
  /\ su.uSmallIterations % Milli = 0
  /\ position.z = 0

(* C3: for every vertex and frame the program draws, the position handed on
   to rasterization is the attribute position offset vertically by the
   elevation (along y, or along the plane's own normal z). *)
C3_DisplacementApplied ==
  (LoopLeft /\ ProgramDraw) =>
    \/ /\ mvInput.x = position.x
       /\ mvInput.y * ElevDen = position.y * ElevDen + elevation
       /\ mvInput.z = position.z
    \/ /\ mvInput.x = position.x
       /\ mvInput.y = position.y
       /\ mvInput.z * ElevDen = position.z * ElevDen + elevation

(* C4: with uSmallIterations 0 or negative the loop body never runs and the
   elevation is the big-wave term; with a whole uSmallIterations = N in
   1..5 the body runs N times, with i = 1, 2, ..., N. *)
C4_LoopCount ==
  LoopLeft =>
    /\ su.uSmallIterations <= 0 =>
         /\ octaves = <<>>
         /\ elevation = sinX * sinZ * su.uBigWavesElevation * NoiseScale * OctaveLcm
    /\ \A N \in 1..MaxOctaves :
         su.uSmallIterations = N * Milli => octaves = [k \in 1..N |-> k]

(* C4's case: a negative iteration count, the loop left with a non-zero
   elevation *)
C4_Witness ==
  /\ stage = "done"
  /\ su.uSmallIterations < 0
  /\ elevation # 0
  /\ octaves = <<>>

(* sum of OctaveLcm / i for i in 1..n *)
RECURSIVE HarmonicLcm(_)
HarmonicLcm(n) == IF n <= 0 THEN 0 ELSE (OctaveLcm \div n) + HarmonicLcm(n - 1)

(* bigElevation + smallElevation * sum(1/i for i in 1..smallIterations),
   over ElevDen *)
AmplitudeBound(u) ==
  SinScale * SinScale * NoiseScale *
    (u.uBigWavesElevation * OctaveLcm
       + u.uSmallWavesElevation * HarmonicLcm(u.uSmallIterations \div Milli))

(* C5: for uniform values inside the sliders' ranges, the elevation stays
   within bigElevation + smallElevation * sum(1/i, i in 1..smallIterations)
   of zero after the big-wave term and after every run of the loop body. *)
C5_AmplitudeBound ==
  (stage # "main" /\ InGuiRange(su)) => abs(elevation) <= AmplitudeBound(su)

(* C5's case: five octaves took the elevation further from zero than the
   big-wave amplitude alone allows *)
C5_Witness ==
  /\ stage = "done"
  /\ InGuiRange(su)
  /\ Len(octaves) = MaxOctaves
  /\ abs(elevation) >
       SinScale * SinScale * NoiseScale * OctaveLcm * su.uBigWavesElevation

(* C6: the color is the affine interpolation of the two colors by the
   elevation the vertex stage passed on, unclamped: the depth color at 0,
   the surface color at 1, beyond the depth color for a negative
   elevation. *)
C6_ColorAffine ==
  stage = "done" =>
    /\ vElevation = elevation
    /\ \A c \in 1..3 :
         /\ color[c] - su.uDepthColor[c] * ElevDen
              = vElevation * (su.uSurfaceColor[c] - su.uDepthColor[c])
         /\ vElevation = 0 => color[c] = su.uDepthColor[c] * ElevDen
         /\ vElevation = ElevDen => color[c] = su.uSurfaceColor[c] * ElevDen
         /\ vElevation < 0 => color[c] < su.uDepthColor[c] * ElevDen

(* C6's case: a negative elevation, the color beyond the depth color *)
C6_Witness ==
  /\ stage = "done"
  /\ vElevation < 0
  /\ color[1] < su.uDepthColor[1] * ElevDen

====
